---------------------------- MODULE Spec2Model ----------------------------
(*************************************************************************)
(* The conversational state machine of src/index.tsx: the five module-  *)
(* level variables, the form's submit handler, the chat container's     *)
(* click handler, and the continuations that run when one of the three  *)
(* remote calls (persona classification, batch generation, variation)   *)
(* resolves.  JavaScript runs each handler and each continuation to     *)
(* completion, so each is one action; an await is a record in `calls`   *)
(* that a later Resolve action consumes, in any order.                  *)
(*                                                                       *)
(* The chat container is kept as what later behaviour depends on: how   *)
(* many loader bubbles, live style-button containers and live           *)
(* satisfaction-button containers it holds, how many vary buttons the   *)
(* largest grid in it carries, and the messages the last step appended. *)
(* Left out, as they touch none of the session's variables: the two     *)
(* welcome bubbles of showWelcomeMessage and the fullscreen viewer.     *)
(* Image payloads are non-empty strings, so a stored image is truthy.   *)
(*************************************************************************)
EXTENDS Naturals, Sequences, FiniteSets, Bags, TLC

-----------------------------------------------------------------------------
(* Bounds and input alphabets *)

\* longest text typed into the prompt input
MaxLen == 2
\* most remote calls outstanding at once
MaxCalls == 2
\* most live button containers of one kind in the chat container
MaxButtons == 1
\* most content parts in a variation response
MaxParts == 2
\* most images the service returns for one batch request
MaxImages == 2
\* config.numberOfImages of the batch request
numberOfImages == 4

Chars == {" ", "s"}
Payloads == {"imgA", "imgB"}
\* data-style of the style buttons clicked (two of the four rendered)
Styles == {"realistic", "cartoon"}
Choices == {"satisfied", "variations", "retry"}
null == "null"
TextPart == "text"

Max(a, b) == IF a >= b THEN a ELSE b
Min(a, b) == IF a <= b THEN a ELSE b

SeqsUpTo(S, n) == UNION {[1..k -> S] : k \in 0..n}

Inputs == SeqsUpTo(Chars, MaxLen)

-----------------------------------------------------------------------------
VARIABLES
    isLoading,            \* let isLoading
    lastUserPrompt,       \* let lastUserPrompt
    lastGeneratedImage,   \* let lastGeneratedImage
    lastGeneratedImages,  \* let lastGeneratedImages
    isVariationRequest,   \* let isVariationRequest
    chatContainer,        \* the chat container's children (see above)
    calls,                \* bag of remote calls awaited and not yet resolved
    lastEvent,            \* history: the handler or continuation that ran last
    issued,               \* history: the remote calls the last step issued
    validated             \* history: prompt of the last classification that
                          \*          returned isValidRequest = true

session == <<isLoading, lastUserPrompt, lastGeneratedImage,
             lastGeneratedImages, isVariationRequest>>
vars == <<isLoading, lastUserPrompt, lastGeneratedImage, lastGeneratedImages,
          isVariationRequest, chatContainer, calls, lastEvent,
          issued, validated>>

-----------------------------------------------------------------------------
(* String.prototype.trim on a sequence of characters *)

RECURSIVE TrimStart(_)
TrimStart(s) ==
    IF s # <<>> /\ Head(s) = " " THEN TrimStart(Tail(s)) ELSE s

RECURSIVE TrimEnd(_)
TrimEnd(s) ==
    IF s # <<>> /\ s[Len(s)] = " " THEN TrimEnd(SubSeq(s, 1, Len(s) - 1)) ELSE s

trim(s) == TrimEnd(TrimStart(s))

-----------------------------------------------------------------------------
(* The chat container *)

\* a message bubble: who sent it, which text, which extra children
Message(sender, kind, text, extra) ==
    [sender |-> sender, kind |-> kind, text |-> text, extra |-> extra]

\* the container at the start of a handler: nothing appended by it yet
Fresh(dom) == [dom EXCEPT !.appended = <<>>]

\* addMessage(text, sender, options): options is "none", "isLoading",
\* "isStyleRequest" or "isSatisfactionRequest"
addMessage(dom, kind, text, sender, options) ==
    [dom EXCEPT
        !.appended = Append(@, Message(sender, kind, text, options)),
        !.loaders = IF options = "isLoading" THEN @ + 1 ELSE @,
        !.styleButtons = IF options = "isStyleRequest" THEN @ + 1 ELSE @,
        !.satisfactionButtons =
            IF options = "isSatisfactionRequest" THEN @ + 1 ELSE @]

\* a continuation that forgets to remove its loader
removeLoaderForgotten(dom) == dom

\* chatContainer.removeChild(loaderMessage)
removeLoader(dom) == [dom EXCEPT !.loaders = @ - 1]

\* botMessage.appendChild(gridContainer): a grid of n images, each with a
\* vary button carrying its index 0..n-1; grids are never removed
appendGrid(dom, n) ==
    [addMessage(dom, "grid", <<>>, "bot", "none") EXCEPT
        !.varyButtons = Max(@, n)]

-----------------------------------------------------------------------------
(* Remote calls *)

Call(op, prompt, style, image) ==
    [op |-> op, prompt |-> prompt, style |-> style, image |-> image]

Outstanding == BagCardinality(calls)
Pending(op) == {c \in BagToSet(calls) : c.op = op}
Issue(c) == calls (+) SetToBag({c})
Settle(c) == calls (-) SetToBag({c})


-----------------------------------------------------------------------------
Init ==
    /\ isLoading = FALSE
    /\ lastUserPrompt = <<>>
    /\ lastGeneratedImage = null
    /\ lastGeneratedImages = <<>>
    /\ isVariationRequest = FALSE
    /\ chatContainer = [loaders |-> 0, styleButtons |-> 0,
                        satisfactionButtons |-> 0, varyButtons |-> 0,
                        appended |-> <<>>]
    /\ calls = EmptyBag
    /\ lastEvent = "init"
    /\ issued = <<>>
    /\ validated = <<>>


-----------------------------------------------------------------------------
(* generateImageVariation(feedbackPrompt) up to its await *)

\* generateImageVariation without its `if (!lastGeneratedImage)` check
generateImageVariationUnchecked(feedbackPrompt, dom) ==
    LET c == Call("variation", feedbackPrompt, "", lastGeneratedImage) IN
    /\ Outstanding < MaxCalls
    /\ isLoading' = TRUE
    /\ chatContainer' = addMessage(dom, "loader", <<>>, "bot", "isLoading")
    /\ calls' = Issue(c)
    /\ issued' = <<c>>

generateImageVariation(feedbackPrompt, dom) ==
    IF lastGeneratedImage = null
    THEN /\ chatContainer' = addMessage(dom, "cantFindLastImage", <<>>, "bot", "none")
         /\ isLoading' = FALSE
         /\ calls' = calls
         /\ issued' = <<>>
    ELSE LET c == Call("variation", feedbackPrompt, "", lastGeneratedImage) IN
         /\ Outstanding < MaxCalls
         /\ isLoading' = TRUE
         /\ chatContainer' = addMessage(dom, "loader", <<>>, "bot", "isLoading")
         /\ calls' = Issue(c)
         /\ issued' = <<c>>

(* handleUserPrompt(prompt) up to its await of getPersonaResponse *)

handleUserPrompt(prompt, dom) ==
    LET c == Call("persona", prompt, "", null) IN
    /\ Outstanding < MaxCalls
    /\ isLoading' = TRUE
    /\ lastUserPrompt' = prompt
    /\ chatContainer' = dom
    /\ calls' = Issue(c)
    /\ issued' = <<c>>

(* generateImage(prompt) up to its await; prompt is the stored prompt and *)
(* the style the full prompt is built from                                *)

generateImage(prompt, style, dom) ==
    LET c == Call("batch", prompt, style, null) IN
    /\ Outstanding < MaxCalls
    /\ chatContainer' = addMessage(dom, "loader", <<>>, "bot", "isLoading")
    /\ calls' = Issue(c)
    /\ issued' = <<c>>

-----------------------------------------------------------------------------
(* chatForm 'submit' listener *)

\* the handler past its isLoading guard
\* the listener routing on the stored image, not on isVariationRequest
submitAcceptedByImage(value) ==
    LET prompt == trim(value)
        dom == addMessage(Fresh(chatContainer), "prompt", prompt, "user", "none")
    IN  IF prompt = <<>>
        THEN /\ chatContainer' = Fresh(chatContainer)
             /\ issued' = <<>>
             /\ UNCHANGED <<session, calls>>
        ELSE IF lastGeneratedImage # null
        THEN /\ isVariationRequest' = FALSE
             /\ generateImageVariation(prompt, dom)
             /\ UNCHANGED <<lastUserPrompt, lastGeneratedImage, lastGeneratedImages>>
        ELSE /\ handleUserPrompt(prompt, dom)
             /\ UNCHANGED <<lastGeneratedImage, lastGeneratedImages, isVariationRequest>>

submitAccepted(value) ==
    LET prompt == trim(value)
        dom == addMessage(Fresh(chatContainer), "prompt", prompt, "user", "none")
    IN  IF prompt = <<>>
        THEN /\ chatContainer' = Fresh(chatContainer)
             /\ issued' = <<>>
             /\ UNCHANGED <<session, calls>>
        ELSE IF isVariationRequest
        THEN /\ isVariationRequest' = FALSE
             /\ generateImageVariation(prompt, dom)
             /\ UNCHANGED <<lastUserPrompt, lastGeneratedImage, lastGeneratedImages>>
        ELSE /\ handleUserPrompt(prompt, dom)
             /\ UNCHANGED <<lastGeneratedImage, lastGeneratedImages, isVariationRequest>>

submitIgnored ==
    /\ chatContainer' = Fresh(chatContainer)
    /\ issued' = <<>>
    /\ UNCHANGED <<session, calls>>

\* the listener without its `if (isLoading) return`
submitUnguarded(value) == submitAccepted(value)

submitGuard(value) ==
    IF isLoading THEN submitIgnored ELSE submitAccepted(value)

submit(value) ==
    /\ lastEvent' = "submit"
    /\ submitGuard(value)
    /\ UNCHANGED validated

-----------------------------------------------------------------------------
(* chatContainer 'click' listener, by the kind of element clicked *)

\* the style branch without buttonContainer.remove()
styleBranchKeepsButtons(style) ==
    LET dom == Fresh(chatContainer) IN
    /\ IF style # "" /\ lastUserPrompt # <<>>
       THEN generateImage(lastUserPrompt, style, dom)
       ELSE /\ chatContainer' = dom
            /\ calls' = calls
            /\ issued' = <<>>
    /\ UNCHANGED session

\* target.matches('.style-button'): a button of a live style container
styleBranch(style) ==
    LET dom == [Fresh(chatContainer) EXCEPT !.styleButtons = @ - 1] IN
    /\ IF style # "" /\ lastUserPrompt # <<>>
       THEN generateImage(lastUserPrompt, style, dom)
       ELSE /\ chatContainer' = dom
            /\ calls' = calls
            /\ issued' = <<>>
    /\ UNCHANGED session

styleClick(style) ==
    /\ chatContainer.styleButtons > 0
    /\ lastEvent' = "style"
    /\ styleBranch(style)
    /\ UNCHANGED validated

\* target.matches('.satisfaction-button')
satisfactionBranch(choice) ==
    LET dom == [Fresh(chatContainer) EXCEPT !.satisfactionButtons = @ - 1] IN
    /\ CASE choice = "satisfied" ->
              /\ chatContainer' =
                    addMessage(addMessage(dom, "great", <<>>, "bot", "none"),
                               "whatNext", <<>>, "bot", "none")
              /\ isLoading' = FALSE
              /\ lastGeneratedImage' = null
              /\ lastGeneratedImages' = <<>>
              /\ UNCHANGED isVariationRequest
         [] choice = "retry" ->
              /\ chatContainer' = addMessage(dom, "noProblem", <<>>, "bot", "none")
              /\ isLoading' = FALSE
              /\ lastGeneratedImage' = null
              /\ lastGeneratedImages' = <<>>
              /\ UNCHANGED isVariationRequest
         [] choice = "variations" ->
              /\ isVariationRequest' = TRUE
              /\ chatContainer' = addMessage(dom, "whatToChange", <<>>, "bot", "none")
              /\ isLoading' = FALSE
              /\ UNCHANGED <<lastGeneratedImage, lastGeneratedImages>>
    /\ UNCHANGED <<lastUserPrompt, calls>>
    /\ issued' = <<>>

satisfactionClick(choice) ==
    /\ chatContainer.satisfactionButtons > 0
    /\ lastEvent' = "satisfaction"
    /\ satisfactionBranch(choice)
    /\ UNCHANGED validated

\* the vary branch with only the image assignment inside the bounds check
varyBranchUnchecked(index) ==
    /\ lastGeneratedImage' = IF index < Len(lastGeneratedImages)
                             THEN lastGeneratedImages[index + 1]
                             ELSE lastGeneratedImage
    /\ isVariationRequest' = TRUE
    /\ chatContainer' = addMessage(Fresh(chatContainer), "whatToChange",
                                   <<>>, "bot", "none")
    /\ isLoading' = FALSE
    /\ UNCHANGED <<lastUserPrompt, lastGeneratedImages>>

\* the vary branch taking the first image whatever button was clicked
varyBranchFirst(index) ==
    IF index < Len(lastGeneratedImages)
    THEN /\ lastGeneratedImage' = lastGeneratedImages[1]
         /\ isVariationRequest' = TRUE
         /\ chatContainer' = addMessage(Fresh(chatContainer), "whatToChange",
                                        <<>>, "bot", "none")
         /\ isLoading' = FALSE
         /\ UNCHANGED <<lastUserPrompt, lastGeneratedImages>>
    ELSE /\ chatContainer' = Fresh(chatContainer)
         /\ UNCHANGED session

\* target.closest('.vary-button'): index is the button's data-image-index;
\* lastGeneratedImages[index] is undefined when index is past the end
varyBranch(index) ==
    IF index < Len(lastGeneratedImages)
    THEN /\ lastGeneratedImage' = lastGeneratedImages[index + 1]
         /\ isVariationRequest' = TRUE
         /\ chatContainer' = addMessage(Fresh(chatContainer), "whatToChange",
                                        <<>>, "bot", "none")
         /\ isLoading' = FALSE
         /\ UNCHANGED <<lastUserPrompt, lastGeneratedImages>>
    ELSE /\ chatContainer' = Fresh(chatContainer)
         /\ UNCHANGED session

varyClick(index) ==
    /\ index < chatContainer.varyButtons
    /\ lastEvent' = "vary"
    /\ varyBranch(index)
    /\ issued' = <<>>
    /\ UNCHANGED <<calls, validated>>

-----------------------------------------------------------------------------
(* What the remote service can answer *)

\* getPersonaResponse: a parsed reply with isValidRequest true or false, or
\* a throw (the call failed, or the reply did not parse)
PersonaOutcomes == {"valid", "invalid", "error"}

\* generateImages: a throw, or response.generatedImages
BatchResponses ==
    {[ok |-> FALSE, images |-> <<>>]} \cup
    {[ok |-> TRUE, images |-> imgs] : imgs \in SeqsUpTo(Payloads, Min(MaxImages, numberOfImages))}

\* generateContent for a variation: a throw, no candidates, or the parts of
\* candidates[0], each a text part or an inline image
Parts == {TextPart} \cup Payloads
VariationResponses ==
    {[ok |-> FALSE, candidates |-> <<>>], [ok |-> TRUE, candidates |-> <<>>]} \cup
    {[ok |-> TRUE, candidates |-> <<parts>>] : parts \in SeqsUpTo(Parts, MaxParts)}

-----------------------------------------------------------------------------
(* handleUserPrompt after getPersonaResponse settles *)

handleUserPromptBody(c, outcome) ==
    LET dom == Fresh(chatContainer) IN
    CASE outcome = "valid" ->
           /\ dom.styleButtons < MaxButtons
           /\ chatContainer' = addMessage(dom, "chooseStyle", <<>>, "bot",
                                          "isStyleRequest")
           /\ validated' = c.prompt
           /\ UNCHANGED session
      [] outcome = "invalid" ->
           /\ chatContainer' = addMessage(dom, "botResponse", <<>>, "bot", "none")
           /\ isLoading' = FALSE
           /\ UNCHANGED <<lastUserPrompt, lastGeneratedImage,
                          lastGeneratedImages, isVariationRequest, validated>>
      [] outcome = "error" ->
           /\ chatContainer' = addMessage(dom, "personaError", <<>>, "bot", "none")
           /\ isLoading' = FALSE
           /\ UNCHANGED <<lastUserPrompt, lastGeneratedImage,
                          lastGeneratedImages, isVariationRequest, validated>>

handleUserPromptResolved(c, outcome) ==
    /\ c \in Pending("persona")
    /\ lastEvent' = "persona"
    /\ handleUserPromptBody(c, outcome)
    /\ calls' = Settle(c)
    /\ issued' = <<>>

-----------------------------------------------------------------------------
(* generateImage after generateImages settles *)

generateImageBody(response) ==
    LET dom == removeLoader(Fresh(chatContainer)) IN
    IF response.ok
    THEN /\ lastGeneratedImages' = response.images
         /\ lastGeneratedImage' = null
         /\ IF Len(response.images) > 0
            THEN chatContainer' =
                    addMessage(appendGrid(dom, Len(response.images)),
                               "fewOptions", <<>>, "bot", "none")
            ELSE chatContainer' =
                    addMessage(dom, "noImages", <<>>, "bot", "none")
         /\ isLoading' = FALSE
         /\ UNCHANGED <<lastUserPrompt, isVariationRequest>>
    ELSE /\ lastGeneratedImages' = <<>>
         /\ lastGeneratedImage' = null
         /\ chatContainer' = addMessage(dom, "generationError", <<>>, "bot", "none")
         /\ isLoading' = FALSE
         /\ UNCHANGED <<lastUserPrompt, isVariationRequest>>

generateImageResolved(c, response) ==
    /\ c \in Pending("batch")
    /\ lastEvent' = "batch"
    /\ generateImageBody(response)
    /\ calls' = Settle(c)
    /\ issued' = <<>>
    /\ UNCHANGED validated

-----------------------------------------------------------------------------
(* generateImageVariation after generateContent settles *)

\* the loop over response.candidates[0].content.parts: st holds the image
\* cache, the container and foundImage
RECURSIVE scanParts(_, _)
scanParts(parts, st) ==
    IF parts = <<>> THEN st
    ELSE LET part == Head(parts) IN
         IF part \in Payloads
         THEN scanParts(Tail(parts),
                        [image |-> part,
                         dom |-> addMessage(st.dom, "variationImage", <<>>,
                                            "bot", "none"),
                         foundImage |-> TRUE])
         ELSE scanParts(Tail(parts), st)

generateImageVariationBody(c, response) ==
    LET dom == removeLoader(Fresh(chatContainer)) IN
    IF response.ok
    THEN LET st0 == [image |-> lastGeneratedImage, dom |-> dom,
                     foundImage |-> FALSE]
             st == IF Len(response.candidates) > 0
                   THEN scanParts(response.candidates[1], st0)
                   ELSE st0
         IN /\ dom.satisfactionButtons < MaxButtons
            /\ lastGeneratedImage' = st.image
            /\ IF st.foundImage
               THEN chatContainer' =
                       addMessage(st.dom, "howDoesThisLook", <<>>, "bot",
                                  "isSatisfactionRequest")
               ELSE chatContainer' =
                       addMessage(addMessage(st.dom, "noVariation", <<>>,
                                             "bot", "none"),
                                  "satisfiedWithPrevious", <<>>, "bot",
                                  "isSatisfactionRequest")
            /\ UNCHANGED <<isLoading, lastUserPrompt, lastGeneratedImages,
                           isVariationRequest>>
    ELSE /\ chatContainer' = addMessage(dom, "variationError", <<>>, "bot", "none")
         /\ UNCHANGED session

generateImageVariationResolved(c, response) ==
    /\ c \in Pending("variation")
    /\ lastEvent' = "variation"
    /\ generateImageVariationBody(c, response)
    /\ calls' = Settle(c)
    /\ issued' = <<>>
    /\ UNCHANGED validated

-----------------------------------------------------------------------------
Next ==
    \/ \E value \in Inputs : submit(value)
    \/ \E style \in Styles : styleClick(style)
    \/ \E choice \in Choices : satisfactionClick(choice)
    \/ \E index \in 0..(numberOfImages - 1) : varyClick(index)
    \/ \E c \in BagToSet(calls), outcome \in PersonaOutcomes :
          handleUserPromptResolved(c, outcome)
    \/ \E c \in BagToSet(calls), response \in BatchResponses :
          generateImageResolved(c, response)
    \/ \E c \in BagToSet(calls), response \in VariationResponses :
          generateImageVariationResolved(c, response)

Spec == Init /\ [][Next]_vars

-----------------------------------------------------------------------------
(* The specification's vocabulary, read off the program's state *)

busy == isLoading
pendingVariationFeedback == isVariationRequest
\* Idle: the next text submitted is accepted and taken as a new prompt
Idle == ~isLoading /\ ~isVariationRequest
AwaitingStyleChoice == chatContainer.styleButtons > 0
AwaitingSatisfaction == chatContainer.satisfactionButtons > 0
\* the step rendered nothing and touched no child of the container
NothingRendered == chatContainer' = Fresh(chatContainer)

Failed == [ok |-> FALSE, images |-> <<>>]
FailedVariation == [ok |-> FALSE, candidates |-> <<>>]
Apologies == {"personaError", "generationError", "variationError"}

-----------------------------------------------------------------------------
(* Claims *)

\* C1: at most one remote call (classification, batch generation or
\* variation) is outstanding at any time.
C1_OneCallOutstanding == Outstanding <= 1

\* C2: busy is true whenever a remote call has been issued and has not yet
\* resolved; in particular a batch call is issued and runs with busy = true.
C2_BusyWhileCallOutstanding == Outstanding > 0 => busy

\* C3: every failed remote call is followed by an apology and leaves the
\* session accepting input: busy = false, or a live satisfaction affordance.
C3_FailureRecovers ==
    [][\A c \in BagToSet(calls) :
          (\/ handleUserPromptResolved(c, "error")
           \/ generateImageResolved(c, Failed)
           \/ generateImageVariationResolved(c, FailedVariation))
          => (/\ Len(chatContainer.appended) > 0
              /\ chatContainer.appended[Len(chatContainer.appended)].kind
                    \in Apologies
              /\ (~busy \/ AwaitingSatisfaction))']_vars

\* C4: a text submission made while busy changes no session variable,
\* issues no remote call and renders no message.
C4_BusySubmitIgnored ==
    [][\A value \in Inputs :
          (busy /\ submit(value))
          => (UNCHANGED <<session, calls>> /\ issued' = <<>> /\ NothingRendered)]_vars

\* C4 witness: a submission was just ignored while busy.
C4_Witness ==
    /\ busy
    /\ lastEvent = "submit"
    /\ chatContainer.appended = <<>>
    /\ Outstanding > 0

\* C5: every batch-generation request is built from the most recent prompt
\* that classification accepted.
C5_BatchFromValidatedPrompt ==
    [][\A style \in Styles :
          (styleClick(style) /\ issued' # <<>>)
          => issued'[1].prompt = validated]_vars

\* C6: when classification returns isValidRequest = true, exactly one bot
\* message is rendered, it carries the style affordance, and busy is true.
C6_ValidMovesToStyleChoice ==
    [][\A c \in BagToSet(calls) :
          handleUserPromptResolved(c, "valid")
          => (/\ chatContainer.appended =
                    <<Message("bot", "chooseStyle", <<>>, "isStyleRequest")>>
              /\ AwaitingStyleChoice
              /\ busy)']_vars

\* C7: when classification returns isValidRequest = false, the session is
\* Idle with busy = false and no style affordance is rendered.
C7_InvalidReturnsToIdle ==
    [][\A c \in BagToSet(calls) :
          handleUserPromptResolved(c, "invalid")
          => /\ Idle'
             /\ chatContainer'.styleButtons = chatContainer.styleButtons
             /\ \A i \in 1..Len(chatContainer'.appended) :
                   chatContainer'.appended[i].extra # "isStyleRequest"]_vars

\* C8: when batch generation returns n >= 1 payloads, lastGeneratedImages is
\* the returned sequence, lastGeneratedImage is empty, a grid is rendered and
\* the session is Idle with busy = false.
C8_BatchPopulatesImageSet ==
    [][\A c \in BagToSet(calls), response \in BatchResponses :
          (generateImageResolved(c, response) /\ response.ok
           /\ Len(response.images) >= 1)
          => (/\ lastGeneratedImages = response.images
              /\ lastGeneratedImage = null
              /\ chatContainer.appended[1].kind = "grid"
              /\ chatContainer.varyButtons >= Len(response.images)
              /\ Idle)']_vars

\* C9: when batch generation returns no payload, lastGeneratedImages is
\* empty, an apology is rendered and the session is Idle with busy = false.
C9_EmptyBatchApologises ==
    [][\A c \in BagToSet(calls) :
          generateImageResolved(c, [ok |-> TRUE, images |-> <<>>])
          => (/\ lastGeneratedImages = <<>>
              /\ chatContainer.appended =
                    <<Message("bot", "noImages", <<>>, "none")>>
              /\ Idle)']_vars

\* C10: a vary click whose index is out of bounds for lastGeneratedImages
\* changes no session variable, issues no call and renders nothing.
C10_VaryOutOfBoundsIgnored ==
    [][\A index \in 0..(numberOfImages - 1) :
          (varyClick(index) /\ index >= Len(lastGeneratedImages))
          => (UNCHANGED <<session, calls>> /\ issued' = <<>> /\ NothingRendered)]_vars

\* C10 witness: a vary button of a grid whose image set is gone or shorter
\* was just clicked.
C10_Witness ==
    /\ lastEvent = "vary"
    /\ chatContainer.appended = <<>>
    /\ chatContainer.varyButtons > Len(lastGeneratedImages)

\* the inline images of a variation response's parts, in order
IsImage(part) == part \in Payloads
ImagesOf(parts) == SelectSeq(parts, IsImage)
AwaitingVariationFeedback == pendingVariationFeedback
Kinds(dom) == [i \in 1..Len(dom.appended) |-> dom.appended[i].kind]

\* C11: the variation round trip.  From Idle a vary click on an in-range
\* index i stores lastGeneratedImages[i], sets pendingVariationFeedback and
\* leaves busy false; the feedback submitted next issues the variation call
\* on that image; and when that call returns one image p the session awaits
\* the satisfaction choice with lastGeneratedImage = p and busy still true.
C11_VariationRoundTrip ==
    [][/\ \A index \in 0..(numberOfImages - 1) :
             (Idle /\ index < Len(lastGeneratedImages) /\ varyClick(index))
             => /\ lastGeneratedImage' = lastGeneratedImages[index + 1]
                /\ (AwaitingVariationFeedback /\ ~busy)'
       /\ \A value \in Inputs :
             (/\ lastEvent = "vary" /\ AwaitingVariationFeedback /\ ~busy
              /\ lastGeneratedImage # null /\ trim(value) # <<>>
              /\ submit(value))
             => /\ issued' = <<Call("variation", trim(value), "",
                                    lastGeneratedImage)>>
                /\ (busy /\ ~pendingVariationFeedback)'
       /\ \A c \in BagToSet(calls), response \in VariationResponses :
             (/\ lastEvent = "submit" /\ issued = <<c>>
              /\ generateImageVariationResolved(c, response)
              /\ response.ok /\ response.candidates # <<>>
              /\ Len(ImagesOf(response.candidates[1])) = 1)
             => /\ lastGeneratedImage' = ImagesOf(response.candidates[1])[1]
                /\ (AwaitingSatisfaction /\ busy)'
                /\ Kinds(chatContainer') = <<"variationImage", "howDoesThisLook">>
      ]_vars

\* C11 witness: a variation has just returned a new image, different from
\* every image of the batch it was derived from, and the choice is awaited.
C11_Witness ==
    /\ lastEvent = "variation"
    /\ Kinds(chatContainer) = <<"variationImage", "howDoesThisLook">>
    /\ AwaitingSatisfaction /\ busy
    /\ Len(lastGeneratedImages) >= 1
    /\ \A i \in 1..Len(lastGeneratedImages) :
          lastGeneratedImages[i] # lastGeneratedImage

\* C12: a satisfaction click with choice satisfied or retry, made in any
\* state, leaves lastGeneratedImages and lastGeneratedImage empty and the
\* session Idle with busy = false.
C12_SatisfiedReturnsToIdle ==
    [][\A choice \in {"satisfied", "retry"} :
          satisfactionClick(choice)
          => (/\ lastGeneratedImages = <<>>
              /\ lastGeneratedImage = null
              /\ Idle)']_vars

\* C20: the text submitted and accepted next after a satisfaction click
\* with choice satisfied or retry is handled as a new prompt: it issues the
\* classification call, never the variation path.
C20_NextPromptAfterSatisfied ==
    [][\A value \in Inputs :
          (/\ lastEvent = "satisfaction"
           /\ Kinds(chatContainer) \in {<<"great", "whatNext">>, <<"noProblem">>}
           /\ ~busy /\ trim(value) # <<>>
           /\ submit(value))
          => /\ issued' = <<Call("persona", trim(value), "", null)>>
             /\ lastUserPrompt' = trim(value)]_vars

\* C13: each choice affordance triggers at most one transition.  A click on
\* a style or satisfaction button removes the container it belongs to, so
\* one live container fewer is left to click, and the transition it
\* triggers issues at most one remote call (none for a satisfaction click).
C13_AffordanceClickedOnce ==
    [][/\ \A style \in Styles :
             styleClick(style)
             => /\ chatContainer'.styleButtons = chatContainer.styleButtons - 1
                /\ chatContainer'.satisfactionButtons =
                      chatContainer.satisfactionButtons
                /\ Len(issued') <= 1
                /\ BagCardinality(calls') = Outstanding + Len(issued')
       /\ \A choice \in Choices :
             satisfactionClick(choice)
             => /\ chatContainer'.satisfactionButtons =
                      chatContainer.satisfactionButtons - 1
                /\ chatContainer'.styleButtons = chatContainer.styleButtons
                /\ issued' = <<>>
                /\ calls' = calls
      ]_vars

\* C13 witness: a style button was just clicked, its container is gone and
\* no style button is left to click.
C13_Witness ==
    /\ lastEvent = "style"
    /\ chatContainer.styleButtons = 0
    /\ Len(issued) = 1 /\ issued[1].op = "batch"

\* the outstanding calls of one kind, counted with multiplicity
CountOp(op) ==
    BagCardinality([c \in Pending(op) |-> calls[c]])

\* C14: every loading indicator is removed when its call resolves, on every
\* exit path: the container holds exactly one loader per outstanding batch
\* or variation call, and none once no such call is outstanding.
C14_LoaderRemovedOnEveryPath ==
    chatContainer.loaders = CountOp("batch") + CountOp("variation")

\* C14 witness: a variation call has just thrown and its loader is gone.
C14_Witness ==
    /\ lastEvent = "variation"
    /\ Kinds(chatContainer) = <<"variationError">>
    /\ chatContainer.loaders = 0
    /\ Outstanding = 0

AwaitingPersonaReply == Pending("persona") # {}
GeneratingBatch == Pending("batch") # {}
GeneratingVariation == Pending("variation") # {}
Phases == <<AwaitingPersonaReply, AwaitingStyleChoice, GeneratingBatch,
            AwaitingSatisfaction, AwaitingVariationFeedback,
            GeneratingVariation>>

\* C15: the phase is exclusive: at most one of awaiting persona reply,
\* awaiting style choice, generating batch, awaiting satisfaction, awaiting
\* variation feedback and generating variation holds at a time.
C15_PhaseExclusive ==
    Cardinality({i \in 1..Len(Phases) : Phases[i]}) <= 1

\* C16: lastGeneratedImage is non-empty only while awaiting variation
\* feedback, generating a variation or awaiting the satisfaction choice, and
\* is empty in Idle and while awaiting the persona reply, awaiting the style
\* choice or generating a batch.
C16_VariationImageOnlyInVariationPhases ==
    /\ lastGeneratedImage # null
          => (AwaitingVariationFeedback \/ GeneratingVariation
              \/ AwaitingSatisfaction)
    /\ (Idle \/ AwaitingPersonaReply \/ AwaitingStyleChoice \/ GeneratingBatch)
          => lastGeneratedImage = null

Accepted(value) == ~busy /\ trim(value) # <<>>

\* C17: an accepted submission (busy false, text non-empty after trimming)
\* is routed by pendingVariationFeedback alone.  With the flag true it takes
\* the variation path (the stored image is looked up: a variation call for
\* it, or the apology when there is none; the stored prompt is untouched and
\* no classification is asked for) and the flag is false afterwards.  With
\* the flag false it takes the new-prompt path: lastUserPrompt is
\* overwritten, the classification call is issued and busy is true.
C17_SubmitRoutedByFlag ==
    [][\A value \in Inputs :
          (Accepted(value) /\ submit(value))
          => IF pendingVariationFeedback
             THEN /\ ~pendingVariationFeedback'
                  /\ lastUserPrompt' = lastUserPrompt
                  /\ Kinds(chatContainer') \in
                        {<<"prompt", "loader">>, <<"prompt", "cantFindLastImage">>}
                  /\ \A i \in 1..Len(issued') : issued'[i].op = "variation"
             ELSE /\ ~pendingVariationFeedback'
                  /\ lastUserPrompt' = trim(value)
                  /\ issued' = <<Call("persona", trim(value), "", null)>>
                  /\ Kinds(chatContainer') = <<"prompt">>
                  /\ busy']_vars

C17_Witness ==
    /\ lastEvent = "submit"
    /\ Len(issued) = 1
    /\ issued[1].op = "variation"
    /\ ~pendingVariationFeedback

\* C18: the variation call is never issued with an empty base image: no
\* step issues a variation call that carries the empty image, and a feedback
\* submission accepted while lastGeneratedImage is empty renders the
\* apology, issues no remote call and leaves the session Idle, busy false.
C18_NoVariationWithoutImage ==
    [][/\ \A i \in 1..Len(issued') :
             issued'[i].op = "variation" => issued'[i].image # null
       /\ \A value \in Inputs :
             (/\ Accepted(value)
              /\ pendingVariationFeedback
              /\ lastGeneratedImage = null
              /\ submit(value))
             => /\ issued' = <<>>
                /\ calls' = calls
                /\ Kinds(chatContainer') = <<"prompt", "cantFindLastImage">>
                /\ Idle'
                /\ ~busy']_vars

C18_Witness ==
    /\ lastEvent = "submit"
    /\ Kinds(chatContainer) = <<"prompt", "cantFindLastImage">>
    /\ issued = <<>>
    /\ Idle

PartsOf(response) ==
    IF Len(response.candidates) > 0 THEN response.candidates[1] ELSE <<>>
Rendered(dom, kind) ==
    Cardinality({i \in 1..Len(dom.appended) : dom.appended[i].kind = kind})

\* C19: for every variation response, an ordered list of parts each text or
\* an inline image, the result applied is the first inline image part:
\* lastGeneratedImage becomes that first image and exactly one image is
\* rendered, also with two or more image parts; with no image part
\* lastGeneratedImage is left unchanged.
C19_FirstInlineImageApplied ==
    [][\A c \in Pending("variation"), response \in VariationResponses :
          (response.ok /\ generateImageVariationResolved(c, response))
          => LET images == ImagesOf(PartsOf(response)) IN
             IF images = <<>>
             THEN /\ lastGeneratedImage' = lastGeneratedImage
                  /\ Rendered(chatContainer', "variationImage") = 0
             ELSE /\ lastGeneratedImage' = images[1]
                  /\ Rendered(chatContainer', "variationImage") = 1]_vars

=============================================================================
